---- MODULE Spec2Model ----
(***************************************************************************)
(* Model of build_wheel.py: the native library closure, staging, rpath     *)
(* rewriting and verification pipeline that builds the vmtk wheel.         *)
(*                                                                         *)
(* Dependency names are the integers 1..NumNames.  A regular file of the   *)
(* library directory is identified by the name of its directory entry;     *)
(* realOf[n] is the real file the entry n resolves to (0: no such entry).  *)
(* The two entry modules are the integers VmtkMod and VtkMod.              *)
(***************************************************************************)
EXTENDS Integers, FiniteSets, Sequences, TLC

NumNames == 2
MaxLinks == 3
MaxOdd == 1
MaxRpaths == 2
MaxFail == 1
MaxLines == 3
MaxApply == 2

Names == 1..NumNames
VmtkMod == NumNames + 1
VtkMod == NumNames + 2
Modules == {VmtkMod, VtkMod}
SrcBinaries == Names \cup Modules
Systems == {"Darwin", "Linux", "Windows"}
Dirs == {"vmtk", "vtkmodules", "lib"}
WarnCap == NumNames + 2

VARIABLES
    SYSTEM,         \* platform.system()
    install_exists, \* install_dir.exists()
    dirs,           \* which of the expected directories the install tree holds
    realOf,         \* library directory: name -> real file, 0 when absent
    links,          \* <<binary, name>>: the binary's metadata references name
    foreign,        \* names whose references are no bundle candidates:
                    \*   Darwin: the entry carries no @rpath/ prefix
                    \*   Linux: ldd resolves it outside lib_dir
                    \*   Windows: the name starts with a system DLL prefix
    libLike,        \* names matching the platform's library file pattern
    broken,         \* binaries the introspection tool fails on
    origRp,         \* LC_RPATH / RUNPATH records the build gave every binary
    pc,             \* position in main()
    needed,         \* collect_needed_libs: name -> real file
    to_process,     \* collect_needed_libs: the worklist
    warnings,       \* name -> number of "referenced lib not found" warnings
    pops,           \* name -> number of times the worklist loop popped it
    inspFailed,     \* binaries whose inspection has failed so far
    inspLog,        \* binaries a printed message reports a failed inspection of
    staging,        \* packages copied into the staging directory
    libs_dir,       \* bundle library subdirectory: name -> real file copied
    rp,             \* bundle binary -> its search-path records
    cmdFailed,      \* a rewrite command has returned non-zero
    ok,             \* result of verify_no_external_refs
    issues,         \* issues verify_no_external_refs printed
    wheel,          \* build_wheel produced the wheel
    exit_code,      \* process exit status, -1 while running
    init_orig,      \* lines of vmtk/__init__.py in the installation tree
    init_py,        \* lines of the staged vmtk/__init__.py
    patched         \* number of times _patch_init_for_dll_loading ran on it

inputs == <<SYSTEM, install_exists, dirs, realOf, links, foreign, libLike,
            broken, origRp>>
collectVars == <<needed, to_process, warnings, pops, inspFailed, inspLog>>
bundleVars == <<staging, libs_dir, rp>>
tailVars == <<cmdFailed, ok, issues, wheel, exit_code>>
patchVars == <<init_orig, init_py, patched>>
vars == <<inputs, pc, collectVars, bundleVars, tailVars, patchVars>>

Min(S) == CHOOSE x \in S : \A y \in S : x <= y

Refs(b) == {n \in Names : <<b, n>> \in links}

(* run(cmd, check=False): a non-zero status is returned, never raised *)
InspectOk(b) == b \notin broken

IsSystemDll(n) == n \in foreign

GetDepsMacos(b) ==
    IF ~InspectOk(b) THEN {} ELSE {n \in Refs(b) : n \notin foreign}

GetDepsLinux(b) ==
    IF ~InspectOk(b) THEN {} ELSE {n \in Refs(b) : n \notin foreign}

GetDepsWindows(b) ==
    IF ~InspectOk(b) THEN {}
    ELSE {n \in Refs(b) : n \in libLike /\ ~IsSystemDll(n) /\ realOf[n] # 0}

GetNativeDeps(b) ==
    CASE SYSTEM = "Darwin" -> GetDepsMacos(b)
      [] SYSTEM = "Linux" -> GetDepsLinux(b)
      [] SYSTEM = "Windows" -> GetDepsWindows(b)
      [] OTHER -> {}

CandidateExistsAlways(name) == TRUE

CandidateExists(name) == realOf[name] # 0

ToEnqueueNone(deps, nd, tp) == {}

ToEnqueueAll(deps, nd, tp) == deps

ToEnqueue(deps, nd, tp) == {d \in deps : d \notin DOMAIN nd /\ d \notin tp}

Bump(w, name) ==
    [w EXCEPT ![name] = IF w[name] < WarnCap THEN w[name] + 1 ELSE WarnCap]

(* One iteration of the while loop of collect_needed_libs on the popped name *)
ProcessName(nd, tp, w, name) ==
    IF ~CandidateExists(name)
    THEN [needed |-> nd, to_process |-> tp \ {name}, warnings |-> Bump(w, name)]
    ELSE LET real == realOf[name]
             nd2 == [n \in DOMAIN nd \cup {name} |->
                        IF n = name THEN real ELSE nd[n]]
             tp2 == tp \ {name}
         IN [needed |-> nd2,
             to_process |-> tp2 \cup ToEnqueue(GetNativeDeps(real), nd2, tp2),
             warnings |-> w]

SeedWork(mods) == UNION {GetNativeDeps(m) : m \in mods}

NoWarnings == [n \in Names |-> 0]

EmptyMap == [n \in {} |-> 0]

(***************************************************************************)
(* Inputs: the installation tree and the binaries' metadata.               *)
(***************************************************************************)
RECURSIVE SubsetsUpTo(_, _)
SubsetsUpTo(S, k) ==
    IF k = 0 THEN {{}}
    ELSE LET P == SubsetsUpTo(S, k - 1)
         IN P \cup {p \cup {x} : p \in P, x \in S}

RECURSIVE SeqsUpTo(_, _)
SeqsUpTo(S, k) ==
    IF k = 0 THEN {<<>>}
    ELSE LET P == SeqsUpTo(S, k - 1)
         IN P \cup {Append(p, x) : p \in P, x \in S}

(* a directory entry is absent, a regular file, or a symbolic link to a
   regular file of the directory *)
LibDirs ==
    {f \in [Names -> 0..NumNames] :
        \A n \in Names : f[n] # 0 => f[f[n]] = f[n]}

Oddities(f, fo, ll, br) ==
    Cardinality({n \in Names : f[n] # n}) + Cardinality(fo)
        + Cardinality(Names \ ll) + Cardinality(br)

OldRpath == "INSTALL/lib"
RpathTokens == {OldRpath, "/opt/other/lib", "@loader_path"}

InitInputs ==
    /\ SYSTEM \in Systems
    /\ realOf \in LibDirs
    /\ foreign \in SubsetsUpTo(Names, MaxOdd)
    /\ libLike \in {Names \ x : x \in SubsetsUpTo(Names, MaxOdd)}
    /\ broken \in SubsetsUpTo({b \in SrcBinaries : b \in Modules \/ realOf[b] = b},
                              MaxOdd)
    /\ Oddities(realOf, foreign, libLike, broken) <= MaxOdd
    /\ links \in SubsetsUpTo(
                   {b \in SrcBinaries : b \in Modules \/ realOf[b] = b} \X Names,
                   MaxLinks)

InitState ==
    /\ needed = EmptyMap
    /\ to_process = {}
    /\ warnings = NoWarnings
    /\ pops = NoWarnings
    /\ inspFailed = {}
    /\ inspLog = {}
    /\ libs_dir = EmptyMap
    /\ cmdFailed = FALSE
    /\ ok = TRUE
    /\ issues = {}
    /\ wheel = FALSE
    /\ exit_code = -1

(***************************************************************************)
(* _patch_init_for_dll_loading.  A line of __init__.py is one of the kinds *)
(* the scan tells apart: "open" starts with a triple quote that occurs     *)
(* once in it, "one" starts with a triple quote that occurs again,         *)
(* "close" holds a triple quote without starting with one, "future" is a   *)
(* from __future__ import, "comment", "blank", and "code" is anything      *)
(* else.  "patch" is the inserted block, whose first line is an import.    *)
(***************************************************************************)
SourceKinds == {"open", "one", "close", "future", "comment", "blank", "code"}

HasTriple(line) == line \in {"open", "one", "close"}

StartsTriple(line) == line \in {"open", "one"}

(* the for loop: the number of leading lines the patch is inserted after *)
RECURSIVE ScanPreamble(_, _, _, _)
ScanPreamble(lines, i, in_docstring, insert_pos) ==
    IF i > Len(lines) THEN insert_pos
    ELSE IF in_docstring
         THEN ScanPreamble(lines, i + 1, ~HasTriple(lines[i]), i)
    ELSE IF StartsTriple(lines[i])
         THEN ScanPreamble(lines, i + 1, lines[i] = "open", i)
    ELSE IF lines[i] \in {"future", "comment", "blank"}
         THEN ScanPreamble(lines, i + 1, FALSE, i)
    ELSE insert_pos

PatchInit(lines) ==
    LET insert_pos == ScanPreamble(lines, 1, FALSE, 0)
    IN SubSeq(lines, 1, insert_pos) \o <<"patch">>
           \o SubSeq(lines, insert_pos + 1, Len(lines))

SampleInit == <<"one", "future", "code">>

(* the state in which main() calls stage_native_libs: both packages staged *)
InitClosure ==
    /\ InitInputs
    /\ install_exists = TRUE
    /\ dirs = Dirs
    /\ origRp = <<OldRpath>>
    /\ InitState
    /\ pc = "stage_libs"
    /\ staging = {"vmtk", "vtkmodules"}
    /\ rp = [b \in Modules |-> origRp]
    /\ init_orig = SampleInit
    /\ init_py = IF SYSTEM = "Windows" THEN PatchInit(SampleInit) ELSE SampleInit
    /\ patched = IF SYSTEM = "Windows" THEN 1 ELSE 0

(***************************************************************************)
(* stage_native_libs and the worklist of collect_needed_libs               *)
(***************************************************************************)
Abort ==
    /\ pc' = "aborted"
    /\ exit_code' = 1

FindVmtkSitePackages == "vmtk" \in dirs

FindVtkSitePackages == "vtkmodules" \in dirs

FindLibDirAlways == TRUE

FindLibDir == "lib" \in dirs

MainStart ==
    /\ UNCHANGED patchVars
    /\ pc = "main"
    /\ IF ~install_exists
       THEN pc' = "no_install" /\ exit_code' = 1
       ELSE pc' = "stage_vmtk" /\ UNCHANGED exit_code
    /\ UNCHANGED <<inputs, collectVars, bundleVars, cmdFailed, ok, issues, wheel>>

StageVmtkPackage ==
    /\ pc = "stage_vmtk"
    /\ IF ~FindVmtkSitePackages
       THEN Abort /\ UNCHANGED <<bundleVars, patchVars>>
       ELSE /\ staging' = staging \cup {"vmtk"}
            /\ rp' = [b \in DOMAIN rp \cup {VmtkMod} |->
                         IF b = VmtkMod THEN origRp ELSE rp[b]]
            /\ IF SYSTEM = "Windows"
               THEN init_py' = PatchInit(init_py) /\ patched' = patched + 1
               ELSE UNCHANGED <<init_py, patched>>
            /\ pc' = "stage_vtk"
            /\ UNCHANGED <<libs_dir, exit_code, init_orig>>
    /\ UNCHANGED <<inputs, collectVars, cmdFailed, ok, issues, wheel>>

StageVtkPackage ==
    /\ UNCHANGED patchVars
    /\ pc = "stage_vtk"
    /\ IF ~FindVtkSitePackages
       THEN Abort /\ UNCHANGED bundleVars
       ELSE /\ staging' = staging \cup {"vtkmodules"}
            /\ rp' = [b \in DOMAIN rp \cup {VtkMod} |->
                         IF b = VtkMod THEN origRp ELSE rp[b]]
            /\ pc' = "stage_libs"
            /\ UNCHANGED <<libs_dir, exit_code>>
    /\ UNCHANGED <<inputs, collectVars, cmdFailed, ok, issues, wheel>>

StageNativeLibsBegin ==
    /\ UNCHANGED patchVars
    /\ pc = "stage_libs"
    /\ IF ~FindLibDir
       THEN /\ Abort
            /\ UNCHANGED <<collectVars, bundleVars, cmdFailed, ok, issues, wheel>>
       ELSE /\ pc' = "collect"
            /\ to_process' = ToEnqueue(SeedWork(Modules), needed, {})
            /\ inspFailed' = inspFailed \cup {m \in Modules : ~InspectOk(m)}
            /\ UNCHANGED <<needed, warnings, pops, inspLog, bundleVars, tailVars>>
    /\ UNCHANGED inputs

CollectPop ==
    /\ UNCHANGED patchVars
    /\ pc = "collect"
    /\ \E name \in to_process :
          LET r == ProcessName(needed, to_process, warnings, name)
          IN /\ needed' = r.needed
             /\ to_process' = r.to_process
             /\ warnings' = r.warnings
             /\ pops' = Bump(pops, name)
             /\ inspFailed' =
                   IF CandidateExists(name) /\ ~InspectOk(realOf[name])
                   THEN inspFailed \cup {realOf[name]}
                   ELSE inspFailed
    /\ UNCHANGED <<inputs, pc, inspLog, bundleVars, tailVars>>

CopyLibsDedup(nd) ==
    [n \in {m \in DOMAIN nd : \A k \in DOMAIN nd : nd[k] = nd[m] => m <= k}
        |-> nd[n]]

(* for name, real_path in sorted(needed.items()): copy2(real_path, libs_dir / name) *)
CopyLibs(nd) == [n \in DOMAIN nd |-> nd[n]]

StageNativeLibsCopy ==
    /\ UNCHANGED patchVars
    /\ pc = "collect"
    /\ to_process = {}
    /\ libs_dir' = CopyLibs(needed)
    /\ rp' = [b \in DOMAIN rp \cup DOMAIN libs_dir' |->
                 IF b \in DOMAIN libs_dir' THEN origRp ELSE rp[b]]
    /\ pc' = "fix_rpaths"
    /\ UNCHANGED <<inputs, collectVars, staging, tailVars>>

(***************************************************************************)
(* fix_all_rpaths                                                          *)
(***************************************************************************)
Range(q) == {q[i] : i \in 1..Len(q)}

(* the source file a bundle binary is a copy of *)
SrcOf(b) == IF b \in Modules THEN b ELSE libs_dir[b]

(* _get_lc_rpaths: otool -l, [] when the tool fails *)
GetLcRpaths(b) == IF InspectOk(SrcOf(b)) THEN rp[b] ELSE <<>>

(* the binaries the globs of _fix_rpaths_macos / _fix_rpaths_linux and of
   verify_no_external_refs select *)
GlobbedLibs == {n \in DOMAIN libs_dir : n \in libLike}

GlobbedBinaries == Modules \cup GlobbedLibs

NewRpath(b) ==
    IF SYSTEM = "Darwin"
    THEN CASE b = VmtkMod -> "@loader_path/.dylibs"
           [] b = VtkMod -> "@loader_path/../vmtk/.dylibs"
           [] OTHER -> "@loader_path"
    ELSE CASE b = VmtkMod -> "$ORIGIN/.libs"
           [] b = VtkMod -> "$ORIGIN/../vmtk/.libs"
           [] OTHER -> "$ORIGIN"

Keep(q, S) == SelectSeq(q, LAMBDA r : r \in S)

(* _fix_rpath_macos followed by _codesign on one binary; fails: the commands
   that return non-zero on it.  ran: the commands the code issues. *)
FixRpathMacos(b, fails) ==
    LET old_rpaths == GetLcRpaths(b)
        new_rpath == NewRpath(b)
        needs_add == new_rpath \notin Range(old_rpaths)
        dels == Range(old_rpaths) \ {new_rpath}
        afterDel == IF "delete" \in fails THEN rp[b]
                    ELSE Keep(rp[b], Range(rp[b]) \ dels)
        afterAdd == IF needs_add /\ "add" \notin fails
                    THEN Append(afterDel, new_rpath) ELSE afterDel
    IN [rp |-> afterAdd,
        ran |-> (IF dels # {} THEN {"delete"} ELSE {})
                   \cup (IF needs_add THEN {"add"} ELSE {}) \cup {"codesign"}]

(* patchelf --set-rpath on one binary *)
FixRpathLinux(b, fails) ==
    [rp |-> IF "set" \in fails THEN rp[b] ELSE <<NewRpath(b)>>,
     ran |-> {"set"}]

FixOne(b, fails) ==
    IF SYSTEM = "Darwin" THEN FixRpathMacos(b, fails) ELSE FixRpathLinux(b, fails)

Commands == {"delete", "add", "codesign", "set"}

FixAllRpaths ==
    /\ UNCHANGED patchVars
    /\ pc = "fix_rpaths"
    /\ IF SYSTEM = "Windows"
       THEN UNCHANGED <<rp, cmdFailed>>
       ELSE \E failing \in SubsetsUpTo(GlobbedBinaries \X Commands, MaxFail) :
              LET fails(b) == {c \in Commands : <<b, c>> \in failing}
              IN /\ rp' = [b \in DOMAIN rp |->
                              IF b \in GlobbedBinaries
                              THEN FixOne(b, fails(b)).rp ELSE rp[b]]
                 /\ cmdFailed' =
                       \E b \in GlobbedBinaries :
                           FixOne(b, fails(b)).ran \cap fails(b) # {}
    /\ pc' = "verify"
    /\ UNCHANGED <<inputs, collectVars, staging, libs_dir, ok, issues, wheel,
                   exit_code>>

(***************************************************************************)
(* verify_no_external_refs: an issue is <<binary, 0>> for a remaining old  *)
(* rpath and <<binary, dep>> for a dependency missing from the bundle      *)
(***************************************************************************)
VerifyIssues ==
    IF SYSTEM = "Darwin"
    THEN {<<b, 0>> : b \in {x \in GlobbedBinaries :
                                OldRpath \in Range(GetLcRpaths(x))}}
         \cup {p \in GlobbedBinaries \X Names :
                  /\ p[2] \in GetDepsMacos(SrcOf(p[1]))
                  /\ p[2] \notin DOMAIN libs_dir}
    ELSE {}

VerifyNoExternalRefs ==
    /\ UNCHANGED patchVars
    /\ pc = "verify"
    /\ IF SYSTEM = "Windows"
       THEN issues' = {} /\ ok' = TRUE /\ UNCHANGED inspFailed
       ELSE /\ issues' = VerifyIssues
            /\ ok' = (VerifyIssues = {})
            /\ inspFailed' =
                  IF SYSTEM = "Darwin"
                  THEN inspFailed \cup
                          {SrcOf(b) : b \in {x \in GlobbedBinaries : ~InspectOk(SrcOf(x))}}
                  ELSE inspFailed
    /\ pc' = "build"
    /\ UNCHANGED <<inputs, needed, to_process, warnings, pops, inspLog, bundleVars,
                   cmdFailed, wheel, exit_code>>

(***************************************************************************)
(* create_setup_files, build_wheel and the end of main()                   *)
(***************************************************************************)
ExitStatusZero(verified) == 0

(* if not ok: sys.exit(1); falling off the end of main() exits with 0 *)
ExitStatus(verified) == IF verified THEN 0 ELSE 1

BuildWheelAndExit ==
    /\ UNCHANGED patchVars
    /\ pc = "build"
    /\ \E built \in BOOLEAN :
          IF built
          THEN /\ wheel' = TRUE
               /\ exit_code' = ExitStatus(ok)
               /\ pc' = "exit"
          ELSE Abort /\ UNCHANGED wheel
    /\ UNCHANGED <<inputs, collectVars, bundleVars, cmdFailed, ok, issues>>

Next ==
    \/ MainStart
    \/ StageVmtkPackage
    \/ StageVtkPackage
    \/ StageNativeLibsBegin
    \/ CollectPop
    \/ StageNativeLibsCopy
    \/ FixAllRpaths
    \/ VerifyNoExternalRefs
    \/ BuildWheelAndExit

(* the installation trees of the whole run: the chain of the two entry
   modules, a library and its dependency, with one record list for every
   binary; a tree with a defective layout is never inspected *)
MainLinks == {<<VmtkMod, 1>>, <<VtkMod, 1>>, <<1, 2>>}

Regular == [n \in Names |-> n]

InitMainInputs ==
    /\ SYSTEM \in Systems
    /\ realOf \in {Regular, [Regular EXCEPT ![2] = 0], [Regular EXCEPT ![2] = 1]}
    /\ links \in SUBSET MainLinks
    /\ libLike \in {Names, Names \ {1}}
    /\ foreign = {}
    /\ broken \in {{}, {1}}
    /\ origRp \in IF SYSTEM = "Windows" THEN {<<>>}
                  ELSE SeqsUpTo(RpathTokens, MaxRpaths)

InitDefectiveInputs ==
    /\ SYSTEM \in Systems
    /\ realOf = Regular
    /\ links = MainLinks
    /\ libLike = Names
    /\ foreign = {}
    /\ broken = {}
    /\ origRp = <<OldRpath>>

Init ==
    /\ \/ install_exists = TRUE /\ dirs = Dirs /\ InitMainInputs
       \/ install_exists = TRUE /\ dirs \in (SUBSET Dirs) \ {Dirs}
            /\ InitDefectiveInputs
       \/ install_exists = FALSE /\ dirs = {} /\ InitDefectiveInputs
    /\ InitState
    /\ pc = "main"
    /\ staging = {}
    /\ rp = EmptyMap
    /\ init_orig = SampleInit
    /\ init_py = SampleInit
    /\ patched = 0

Spec == Init /\ [][Next]_vars

FairSpec == Spec /\ WF_vars(Next)

NextClosure ==
    \/ StageNativeLibsBegin
    \/ CollectPop
    \/ StageNativeLibsCopy

SpecClosure == InitClosure /\ [][NextClosure]_vars

(* the runs of the termination property: foreign names, unreadable binaries
   and the Windows filters only remove edges from the graph the worklist
   follows, so every graph they yield is a graph of this family as well *)
InitTermination ==
    /\ InitClosure
    /\ foreign = {}
    /\ libLike = Names
    /\ broken = {}

FairClosure ==
    InitTermination /\ [][NextClosure]_vars /\ WF_vars(NextClosure)

(***************************************************************************)
(* _patch_init_for_dll_loading applied repeatedly to one __init__.py       *)
(***************************************************************************)
InitPatch ==
    /\ SYSTEM = "Windows"
    /\ install_exists = TRUE
    /\ dirs = Dirs
    /\ InitDefectiveInputs
    /\ InitState
    /\ pc = "patch"
    /\ staging = {"vmtk"}
    /\ rp = [b \in {VmtkMod} |-> origRp]
    /\ init_orig \in SeqsUpTo(SourceKinds, MaxLines)
    /\ init_py = init_orig
    /\ patched = 0

PatchInitForDllLoading ==
    /\ pc = "patch"
    /\ patched < MaxApply
    /\ init_py' = PatchInit(init_py)
    /\ patched' = patched + 1
    /\ UNCHANGED <<inputs, pc, collectVars, bundleVars, tailVars, init_orig>>

NextPatch == PatchInitForDllLoading

SpecPatch == InitPatch /\ [][NextPatch]_vars

CountPatch(lines) == Cardinality({i \in 1..Len(lines) : lines[i] = "patch"})

(* C12: however often _patch_init_for_dll_loading has been applied to an
   __init__.py (once or more), the file is what one application yields and
   holds the DLL-directory block exactly once. *)
C12_PatchIdempotent ==
    patched >= 1 =>
        /\ init_py = PatchInit(init_orig)
        /\ CountPatch(init_py) = 1

(***************************************************************************)
(* Reference definitions for the closure properties                        *)
(***************************************************************************)
Owned(n) == realOf[n] # 0

RECURSIVE ReachFrom(_)
ReachFrom(R) ==
    LET more == {d \in UNION {GetNativeDeps(realOf[n]) : n \in R} : Owned(d)}
    IN IF more \subseteq R THEN R ELSE ReachFrom(R \cup more)

ReachableOwned == ReachFrom({d \in SeedWork(Modules) : Owned(d)})

(* the run of the worklist loop that always pops the smallest name *)
RECURSIVE RunInOrder(_, _, _)
RunInOrder(nd, tp, w) ==
    IF tp = {} THEN [needed |-> nd, warnings |-> w]
    ELSE LET r == ProcessName(nd, tp, w, Min(tp))
         IN RunInOrder(r.needed, r.to_process, r.warnings)

SmallestFirstRun == RunInOrder(EmptyMap, SeedWork(Modules), NoWarnings)

Returned == pc \in {"fix_rpaths", "verify", "build", "exit"}

(* C1: when collect_needed_libs has returned, the keys of needed are exactly
   the names with a file in the library directory that are reachable from the
   entry modules through such names, each mapped to its resolved real file. *)
C1_ClosureComplete ==
    Returned =>
        /\ DOMAIN needed = ReachableOwned
        /\ \A n \in DOMAIN needed : needed[n] = realOf[n]

C1_Witness ==
    /\ pc = "fix_rpaths"
    /\ Cardinality(DOMAIN needed) >= 2
    /\ \E n \in DOMAIN needed : n \notin SeedWork(Modules)

(* C2: once the worklist loop of collect_needed_libs is entered, the worklist
   eventually becomes empty and the function returns. *)
C2_Terminates == (pc = "collect") ~> (pc = "fix_rpaths" /\ to_process = {})

C2_Witness ==
    /\ pc = "fix_rpaths"
    /\ \E a \in DOMAIN needed, b \in DOMAIN needed :
          /\ a # b
          /\ b \in GetNativeDeps(realOf[a])
          /\ a \in GetNativeDeps(realOf[b])

(* C3: the ClosureSet and the number of warnings per name do not depend on the
   order in which the worklist is popped: every run ends with the result of
   the run that pops the smallest name first. *)
C3_OrderIndependent ==
    Returned =>
        /\ needed = SmallestFirstRun.needed
        /\ warnings = SmallestFirstRun.warnings

(* C4: a name without a file in the library directory, or whose references
   are no bundle candidates (on Windows: a system DLL prefix), is never a key
   of needed and never a file of the bundle library subdirectory. *)
C4_ForeignExcluded ==
    \A n \in DOMAIN needed \cup DOMAIN libs_dir :
        /\ realOf[n] # 0
        /\ SYSTEM = "Windows" => ~IsSystemDll(n)

C4_Witness ==
    /\ pc = "fix_rpaths"
    /\ DOMAIN libs_dir # {}
    /\ \E n \in Names : realOf[n] = 0 /\ warnings[n] > 0

(* C5 as stated: the number of files staged equals the number of distinct
   resolved real paths of the closure. *)
C5_StagedOncePerRealPath ==
    Returned =>
        Cardinality(DOMAIN libs_dir) =
            Cardinality({needed[n] : n \in DOMAIN needed})

(* C5 amended: staging copies one file per name of the closure, each a copy
   of the real file the name resolves to; names aliasing the same real file
   are staged once each. *)
C5_StagedOncePerName ==
    Returned =>
        /\ DOMAIN libs_dir = DOMAIN needed
        /\ \A n \in DOMAIN libs_dir : libs_dir[n] = realOf[n]

C5_Witness ==
    /\ pc = "fix_rpaths"
    /\ \E a \in DOMAIN libs_dir, b \in DOMAIN libs_dir :
          a # b /\ libs_dir[a] = libs_dir[b]

(* C9: every failed inspection yields no dependencies and is reported by a
   printed warning. *)
C9_InspectionFailuresWarned ==
    \A b \in inspFailed : GetNativeDeps(b) = {} /\ b \in inspLog

Rewritten == pc \in {"verify", "build", "exit"}

Verified == pc \in {"build", "exit"}

(* C6: on Darwin and Linux, after fix_all_rpaths ran with every tool command
   succeeding, every binary of the bundle (both entry modules and every
   staged library) carries exactly the canonical record of its position. *)
C6_RewriterPostcondition ==
    (Rewritten /\ SYSTEM # "Windows" /\ ~cmdFailed /\ broken = {}) =>
        \A b \in DOMAIN rp : Range(rp[b]) = {NewRpath(b)}

(* C7: on Darwin and Linux, a bundle binary that still carries the build-time
   library directory as a record, or that references an Owned dependency
   without a file in the bundle library subdirectory, makes
   verify_no_external_refs return False and is named among the issues. *)
C7_VerifierSound ==
    (Verified /\ SYSTEM # "Windows") =>
        \A b \in DOMAIN rp :
            /\ OldRpath \in Range(rp[b]) => (~ok /\ <<b, 0>> \in issues)
            /\ \A d \in Refs(SrcOf(b)) \ foreign :
                  (Owned(d) /\ d \notin DOMAIN libs_dir) =>
                      (~ok /\ <<b, d>> \in issues)

(* C8: when a rewrite command of fix_all_rpaths has failed, the run goes on
   and verify_no_external_refs returns False. *)
C8_SoftFailuresSurfaced == (Verified /\ cmdFailed) => ~ok

LayoutDefective == install_exists /\ dirs # Dirs

(* C10 as stated: with an expected directory missing, nothing is ever copied
   into the staging directory. *)
C10_AbortBeforeStaging ==
    LayoutDefective => (staging = {} /\ DOMAIN libs_dir = {})

(* C10 amended: with an expected directory missing, the run never gets past
   the stage that looks for it: it aborts with exit status 1 before any
   native library is copied, any binary rewritten or the wheel built; only
   the packages found before the missing directory have been copied, and
   nothing at all when the vmtk package directory is the missing one. *)
C10_AbortBeforeLibStaging ==
    LayoutDefective =>
        /\ pc \in {"main", "stage_vmtk", "stage_vtk", "stage_libs", "aborted"}
        /\ pc = "aborted" => exit_code = 1
        /\ DOMAIN libs_dir = {} /\ DOMAIN needed = {}
        /\ \A b \in DOMAIN rp : rp[b] = origRp
        /\ ~wheel
        /\ "vmtk" \notin dirs => staging = {}
        /\ "vtkmodules" \notin dirs => staging \subseteq {"vmtk"}

C10_Witness ==
    /\ pc = "aborted"
    /\ "lib" \notin dirs
    /\ staging = {"vmtk", "vtkmodules"}

(* C11: the process exits with 1 when the installation directory does not
   exist, before anything is staged, and when verify_no_external_refs
   returned False; it exits with 0 only when every phase completed and the
   verifier returned True.  A False result does not stop the later phases:
   the wheel is built when the build succeeds, and the exit status is
   non-zero whether it does or not. *)
C11_ExitCodeContract ==
    /\ ~install_exists =>
          /\ pc \in {"main", "no_install"}
          /\ staging = {} /\ DOMAIN libs_dir = {} /\ ~wheel
          /\ pc = "no_install" => exit_code = 1
    /\ pc = "exit" => (wheel /\ exit_code = IF ok THEN 0 ELSE 1)
    /\ exit_code = 0 => (pc = "exit" /\ ok /\ wheel)
    /\ (Verified /\ ~ok) => exit_code \in {-1, 1}
    /\ (pc \in {"exit", "aborted", "no_install"}) = (exit_code # -1)

C11_Witness ==
    /\ pc = "exit"
    /\ ~ok
    /\ wheel
    /\ exit_code = 1

(* C13: within one run of collect_needed_libs every name is popped from the
   worklist and processed at most once, whether it has a file in the library
   directory or not, so an absent name is warned about at most once. *)
C13_ProcessedAtMostOnce ==
    \A n \in Names : pops[n] <= 1 /\ warnings[n] <= 1

TypeOK ==
    /\ SYSTEM \in Systems
    /\ to_process \subseteq Names
    /\ DOMAIN needed \subseteq Names

====
